---- MODULE Spec2Model ----
(***************************************************************************)
(* Model of the per-session media pipeline of the WebRTC voice bot server: *)
(* the session state machine (src/server/state-machine.js), the recogniser *)
(* FakeSTT (src/unnamed/part_003), the synthesizer stream FakeTTS          *)
(* (src/server/fake-tts.js), the Session controller and the registry       *)
(* (src/server/session-manager.js), the handlers of a signalling           *)
(* connection (src/server/index.js) and the outbound audio handler         *)
(* (src/unnamed/part_004).                                                 *)
(*                                                                         *)
(* Node.js runs every handler to completion up to its first await on a     *)
(* timer; the only timer is FakeTTS.delay.  A handler is one action, except*)
(* where the order of effects inside a handler is itself a property: there *)
(* the handler is a chain of steps linked by pc, and no other handler may  *)
(* start while a chain is in progress.                                     *)
(***************************************************************************)
EXTENDS Integers, Sequences, FiniteSets, TLC

\* ------------------------------------------------------------------ bounds
MaxReplies == 2       \* replies generated per session
MaxVoice == 25        \* cap of the voiced-frame counter of a session's recogniser
MaxStreamFrames == 2  \* cap of the frames one synthesis stream produces
MaxHistory == 4       \* accepted transitions in the stand-alone state machine
MaxUtteranceVoice == 40 \* cap of the voiced-frame counter of the stand-alone recogniser
MaxListeners == 1     \* listeners registered on the stand-alone state machine
MaxCalls == 2         \* calls made on the stand-alone AudioProcessor
MaxWords == 7         \* words of a text given to the stand-alone synthesizer
MaxOffers == 2        \* offer messages received on a signalling connection
MaxCloseMessages == 1 \* close messages received on a signalling connection
MaxEvents == 6        \* events in the log of the session of a signalling connection
MaxThrown == 1        \* sends on a signalling connection in which onData throws
MaxPairEvents == 9    \* events in the logs of two concurrent sessions together

\* --------------------------------------------------------------- constants
SessionIds == {"A", "B"}

IDLE == "IDLE"
LISTENING == "LISTENING"
PROCESSING == "PROCESSING"
SPEAKING == "SPEAKING"
INTERRUPTED == "INTERRUPTED"
SessionState == {IDLE, LISTENING, PROCESSING, SPEAKING, INTERRUPTED}

VOICE_START_FRAMES == 25
SILENCE_END_FRAMES == 15
\* VOICE_THRESHOLD = 0.02 = 1/50; rms > 1/50 iff sum(s^2)/(n*2^30) > 1/2500
ThresholdDen == 625
ThresholdNum == 268435456
frameDurationMs == 20
wordsPerSecond == 3
minDurationSeconds == 2
targetSampleRate == 16000
bytesPerFrame == 640

Min(a, b) == IF a < b THEN a ELSE b
Max(a, b) == IF a > b THEN a ELSE b

\* ------------------------------------------------------------ state machine
\* validTransitions[from]?.includes(to) || false
validTransitions(from) ==
  CASE from = IDLE -> {LISTENING}
    [] from = LISTENING -> {PROCESSING, IDLE}
    [] from = PROCESSING -> {SPEAKING, LISTENING, IDLE}
    [] from = SPEAKING -> {INTERRUPTED, LISTENING, IDLE}
    [] from = INTERRUPTED -> {LISTENING, IDLE}
    [] OTHER -> {}

isValidTransition_forwardOnly(from, to) ==
  to \in validTransitions(from) /\ <<from, to>> # <<SPEAKING, LISTENING>>

isValidTransition_selfLoop(from, to) == to \in validTransitions(from) \/ to = from

isValidTransition(from, to) == to \in validTransitions(from)

\* new StateMachine(sessionId)
NewStateMachine == [state |-> IDLE, history |-> <<>>, listeners |-> 0, notified |-> 0]

\* StateMachine.transition: the machine after the call and the returned flag
transition_logsRejected(m, newState) ==
  IF ~isValidTransition(m.state, newState)
    THEN [m |-> [m EXCEPT !.history = Append(@, [from |-> m.state, to |-> newState])],
          ok |-> FALSE]
    ELSE [m |-> [m EXCEPT !.state = newState,
                          !.history = Append(@, [from |-> m.state, to |-> newState]),
                          !.notified = @ + m.listeners],
          ok |-> TRUE]

transition_recordsTarget(m, newState) ==
  IF ~isValidTransition(m.state, newState)
    THEN [m |-> m, ok |-> FALSE]
    ELSE [m |-> [m EXCEPT !.state = newState,
                          !.history = Append(@, [from |-> newState, to |-> newState]),
                          !.notified = @ + m.listeners],
          ok |-> TRUE]

transition(m, newState) ==
  IF ~isValidTransition(m.state, newState)
    THEN [m |-> m, ok |-> FALSE]
    ELSE [m |-> [m EXCEPT !.state = newState,
                          !.history = Append(@, [from |-> m.state, to |-> newState]),
                          !.notified = @ + m.listeners],
          ok |-> TRUE]

\* ---------------------------------------------------------------- recogniser
responses == <<
  <<"h","e","l","l","o">>,
  <<"h","o","w"," ","a","r","e"," ","y","o","u">>,
  <<"w","h","a","t","'","s"," ","t","h","e"," ","w","e","a","t","h","e","r">>,
  <<"t","e","l","l"," ","m","e"," ","a"," ","j","o","k","e">>,
  <<"g","o","o","d","b","y","e">> >>

\* String.prototype.substring(0, n)
substring(str, n) == SubSeq(str, 1, Min(Max(n, 0), Len(str)))

\* new FakeSTT(); responseIndex is 0-based in the source
NewSTT == [isProcessing |-> FALSE, silenceFrames |-> 0, voiceFrames |-> 0,
           partialText |-> <<>>, responseIndex |-> 0]

RECURSIVE SumSquares(_)
SumSquares(frame) ==
  IF frame = <<>> THEN 0 ELSE Head(frame) * Head(frame) + SumSquares(Tail(frame))

\* calculateRMS(frame) > VOICE_THRESHOLD, in integers:
\* sqrt(sum((s/32768)^2)/n) > 0.02  iff  sum(s^2) * 625 > 2^28 * n
hasVoice(frame) == SumSquares(frame) > (ThresholdNum * Len(frame)) \div ThresholdDen

getNextResponse(stt) == responses[stt.responseIndex + 1]

\* FakeSTT.reset
sttReset_keepsVoice(stt) == [stt EXCEPT !.isProcessing = FALSE, !.silenceFrames = 0,
                                        !.partialText = <<>>]

sttReset(stt) == [stt EXCEPT !.isProcessing = FALSE, !.silenceFrames = 0,
                             !.voiceFrames = 0, !.partialText = <<>>]

NoResult == [type |-> "none", text |-> <<>>]

\* FakeSTT.processFrame: the recogniser after the call and the returned event
processFrame_shrinks(stt, frame) ==
  IF hasVoice(frame)
    THEN LET v == stt.voiceFrames + 1
             s1 == [stt EXCEPT !.voiceFrames = v, !.silenceFrames = 0]
         IN IF v = VOICE_START_FRAMES /\ ~stt.isProcessing
              THEN LET t == substring(getNextResponse(stt), 3)
                   IN [stt |-> [s1 EXCEPT !.isProcessing = TRUE, !.partialText = t],
                       result |-> [type |-> "partial", text |-> t]]
              ELSE IF s1.isProcessing /\ v % 10 = 0
                THEN LET fullText == getNextResponse(stt)
                         progress == Min(v - VOICE_START_FRAMES - 3, Len(fullText))
                         t == substring(fullText, progress)
                     IN [stt |-> [s1 EXCEPT !.partialText = t],
                         result |-> [type |-> "partial", text |-> t]]
                ELSE [stt |-> s1, result |-> NoResult]
    ELSE IF stt.isProcessing
      THEN LET s1 == [stt EXCEPT !.silenceFrames = @ + 1]
           IN IF s1.silenceFrames >= SILENCE_END_FRAMES
                THEN [stt |-> sttReset([s1 EXCEPT !.responseIndex =
                                          (@ + 1) % Len(responses)]),
                      result |-> [type |-> "final", text |-> getNextResponse(stt)]]
                ELSE [stt |-> s1, result |-> NoResult]
      ELSE [stt |-> stt, result |-> NoResult]

processFrame_lateFinal(stt, frame) ==
  IF hasVoice(frame)
    THEN LET v == stt.voiceFrames + 1
             s1 == [stt EXCEPT !.voiceFrames = v, !.silenceFrames = 0]
         IN IF v = VOICE_START_FRAMES /\ ~stt.isProcessing
              THEN LET t == substring(getNextResponse(stt), 3)
                   IN [stt |-> [s1 EXCEPT !.isProcessing = TRUE, !.partialText = t],
                       result |-> [type |-> "partial", text |-> t]]
              ELSE IF s1.isProcessing /\ v % 10 = 0
                THEN LET fullText == getNextResponse(stt)
                         progress == Min(v - VOICE_START_FRAMES, Len(fullText))
                         t == substring(fullText, progress)
                     IN [stt |-> [s1 EXCEPT !.partialText = t],
                         result |-> [type |-> "partial", text |-> t]]
                ELSE [stt |-> s1, result |-> NoResult]
    ELSE IF stt.isProcessing
      THEN LET s1 == [stt EXCEPT !.silenceFrames = @ + 1]
           IN IF s1.silenceFrames > SILENCE_END_FRAMES
                THEN [stt |-> sttReset([s1 EXCEPT !.responseIndex =
                                          (@ + 1) % Len(responses)]),
                      result |-> [type |-> "final", text |-> getNextResponse(stt)]]
                ELSE [stt |-> s1, result |-> NoResult]
      ELSE [stt |-> stt, result |-> NoResult]

processFrame(stt, frame) ==
  IF hasVoice(frame)
    THEN LET v == stt.voiceFrames + 1
             s1 == [stt EXCEPT !.voiceFrames = v, !.silenceFrames = 0]
         IN IF v = VOICE_START_FRAMES /\ ~stt.isProcessing
              THEN LET t == substring(getNextResponse(stt), 3)
                   IN [stt |-> [s1 EXCEPT !.isProcessing = TRUE, !.partialText = t],
                       result |-> [type |-> "partial", text |-> t]]
              ELSE IF s1.isProcessing /\ v % 10 = 0
                THEN LET fullText == getNextResponse(stt)
                         progress == Min(v - VOICE_START_FRAMES, Len(fullText))
                         t == substring(fullText, progress)
                     IN [stt |-> [s1 EXCEPT !.partialText = t],
                         result |-> [type |-> "partial", text |-> t]]
                ELSE [stt |-> s1, result |-> NoResult]
    ELSE IF stt.isProcessing
      THEN LET s1 == [stt EXCEPT !.silenceFrames = @ + 1]
           IN IF s1.silenceFrames >= SILENCE_END_FRAMES
                THEN [stt |-> sttReset([s1 EXCEPT !.responseIndex =
                                          (@ + 1) % Len(responses)]),
                      result |-> [type |-> "final", text |-> getNextResponse(stt)]]
                ELSE [stt |-> s1, result |-> NoResult]
      ELSE [stt |-> stt, result |-> NoResult]

\* ---------------------------------------------------------------- synthesizer
RECURSIVE CountSpaces(_)
CountSpaces(text) ==
  IF text = <<>> THEN 0
  ELSE (IF Head(text) = " " THEN 1 ELSE 0) + CountSpaces(Tail(text))

\* text.split(' ').length
words(text) == CountSpaces(text) + 1

\* Math.floor(Math.max(2, words / 3) * 1000 / frameDurationMs)
totalFrames_ceil(text) ==
  Max((minDurationSeconds * 1000) \div frameDurationMs,
      (words(text) * 1000 + wordsPerSecond * frameDurationMs - 1)
        \div (wordsPerSecond * frameDurationMs))

totalFrames(text) ==
  Max((minDurationSeconds * 1000) \div frameDurationMs,
      (words(text) * 1000) \div (wordsPerSecond * frameDurationMs))

\* the frames one modelled stream produces: the loop bound of
\* generateAudioStream, capped by MaxStreamFrames
streamFrames(text) == Min(totalFrames(text), MaxStreamFrames)

\* `You said: ${userText}`
botResponseFor(userText) == <<"Y","o","u"," ","s","a","i","d",":"," ">> \o userText

\* -------------------------------------------------------------------- state
VARIABLES
  registry,            \* SessionManager.sessions: ids of the registered sessions
  sm,                  \* Session.stateMachine
  stt,                 \* Session.stt
  ttsPhase,            \* Session.tts.phase, as frames generated since reset()
  ttsAbortController,  \* Session.ttsAbortController: a handle id, 0 for null
  nextHandle,          \* AbortControllers constructed so far (handle ids 1..n)
  aborted,             \* handle ids whose signal is aborted
  isProcessingAudio,   \* Session.isProcessingAudio
  logs,                \* Session.logger.logs
  streams,             \* the generateResponse loops and their generators
  replies,             \* calls of generateResponse so far
  starts,              \* calls of start so far
  sink,                \* frames handed to audioHandler.sendAudio: <<reply, index>>
  pc,                  \* position inside a handler that is run as a chain of steps
  lastCall,            \* the last call made on the stand-alone state machine
  emitted,             \* events the stand-alone recogniser returned in this utterance
  buffer,              \* AudioProcessor.buffer: the residual bytes
  calls,               \* the calls made on the stand-alone AudioProcessor
  synth,               \* the stand-alone FakeTTS generator and its consumer
  conn                 \* the closure of each signalling connection of index.js

vars == <<registry, sm, stt, ttsPhase, ttsAbortController, nextHandle, aborted,
          isProcessingAudio, logs, streams, replies, starts, sink, pc, lastCall, emitted,
          buffer, calls, synth, conn>>

\* inbound frames: silence, a frame just below the threshold (rms 0.01999),
\* one just above it (rms 0.02002), a loud frame, a frame with one loud sample
InputFrames == {<<0, 0>>, <<655, 655>>, <<656, 656>>, <<-16000, 16000>>, <<0, 928>>}

Ev(type, text) == [eventType |-> type, text |-> text]

\* a reply that has not been generated
NoStream == [status |-> "none", frameIndex |-> 0, chunkCount |-> 0,
             signal |-> 0, total |-> 0]

\* no generator has been created
NoSynth == [status |-> "none", text |-> <<>>, frameIndex |-> 0, chunks |-> 0,
            aborted |-> FALSE]

NoCall == [op |-> "none", to |-> IDLE, ok |-> FALSE, before |-> NewStateMachine]

\* wss.on('connection'): no offer has been received on the connection
NoConn == [session |-> FALSE, pending |-> FALSE, offers |-> 0, closes |-> 0,
           wsOpen |-> TRUE, connectionState |-> "none", audioHandler |-> 0,
           sessionHandler |-> 0, destroyed |-> {}, failed |-> <<>>, thrown |-> 0,
           audio |-> [handled |-> FALSE, frame |-> <<>>, normalized |-> FALSE]]

\* new Session(...) for every id; createSession has registered the ids in reg
InitWith(reg) ==
  /\ registry = reg
  /\ sm = [s \in SessionIds |-> NewStateMachine]
  /\ stt = [s \in SessionIds |-> NewSTT]
  /\ ttsPhase = [s \in SessionIds |-> 0]
  /\ ttsAbortController = [s \in SessionIds |-> 0]
  /\ nextHandle = [s \in SessionIds |-> 0]
  /\ aborted = [s \in SessionIds |-> {}]
  /\ isProcessingAudio = [s \in SessionIds |-> FALSE]
  /\ logs = [s \in SessionIds |-> <<>>]
  /\ streams = [s \in SessionIds |-> [r \in 1..MaxReplies |-> NoStream]]
  /\ replies = [s \in SessionIds |-> 0]
  /\ starts = [s \in SessionIds |-> 0]
  /\ sink = [s \in SessionIds |-> <<>>]
  /\ pc = [s \in SessionIds |-> "idle"]
  /\ lastCall = NoCall
  /\ emitted = <<>>
  /\ buffer = <<>>
  /\ calls = <<>>
  /\ synth = NoSynth
  /\ conn = [c \in SessionIds |-> NoConn]

\* createSession has registered session A
Init == InitWith({"A"})

\* no handler is in progress: the event loop can start the next callback
Quiescent == \A s \in SessionIds : pc[s] = "idle"

\* AbortSignal.aborted of the signal a reply captured
abortSignalAborted_current(abortedSet, current, signal) == current \in abortedSet

abortSignalAborted(abortedSet, current, signal) == signal \in abortedSet

\* --------------------------------------------------------------- operations
\* handleOffer: session.start() on the session createSession registered; the
\* client sends one offer per connection
Start_noAudioProcessing(s) ==
  /\ Quiescent
  /\ s \in registry
  /\ starts[s] = 0
  /\ starts' = [starts EXCEPT ![s] = @ + 1]
  /\ logs' = [logs EXCEPT ![s] = Append(@, Ev("session_start", <<>>))]
  /\ sm' = [sm EXCEPT ![s] = transition(@, LISTENING).m]
  /\ UNCHANGED <<registry, stt, ttsPhase, ttsAbortController, nextHandle, aborted,
                 streams, replies, sink, pc, lastCall, emitted,
                 buffer, calls, synth, isProcessingAudio>>

Start(s) ==
  /\ Quiescent
  /\ s \in registry
  /\ starts[s] = 0
  /\ starts' = [starts EXCEPT ![s] = @ + 1]
  /\ logs' = [logs EXCEPT ![s] = Append(@, Ev("session_start", <<>>))]
  /\ sm' = [sm EXCEPT ![s] = transition(@, LISTENING).m]
  /\ isProcessingAudio' = [isProcessingAudio EXCEPT ![s] = TRUE]
  /\ UNCHANGED <<registry, stt, ttsPhase, ttsAbortController, nextHandle, aborted,
                 streams, replies, sink, pc, lastCall, emitted, buffer, calls, synth>>

\* which branch of processAudioFrame a frame takes in a given state
dispatch_recogniseWhileSpeaking(state) ==
  IF state = SPEAKING \/ state = LISTENING THEN "recognise" ELSE "drop"

dispatch_bargeWhileListening(state) ==
  IF state = SPEAKING \/ state = LISTENING THEN "bargeCheck"
  ELSE "drop"

dispatch(state) ==
  IF state = SPEAKING THEN "bargeCheck"
  ELSE IF state # LISTENING THEN "drop"
  ELSE "recognise"

\* rms > this.stt.VOICE_THRESHOLD, the barge-in test of processAudioFrame
rmsAboveThreshold_anySound(frame) == SumSquares(frame) > 0

rmsAboveThreshold(frame) ==
  SumSquares(frame) > (ThresholdNum * Len(frame)) \div ThresholdDen

\* the sink callback of handleIncomingAudioTrack for one frame of a block,
\* then Session.processAudioFrame up to its first await
ProcessAudioFrame(s, frame) ==
  /\ Quiescent
  /\ isProcessingAudio[s]
  /\ LET d == dispatch(sm[s].state)
         r == processFrame(stt[s], frame)
     IN
     CASE d = "bargeCheck" /\ rmsAboveThreshold(frame) ->
            \* handleBargeIn, first statement
            /\ sm' = [sm EXCEPT ![s] = transition(@, INTERRUPTED).m]
            /\ pc' = [pc EXCEPT ![s] = "bargeIn_abort"]
            /\ UNCHANGED <<stt, logs>>
       [] d = "recognise" ->
            /\ hasVoice(frame) => stt[s].voiceFrames < MaxVoice
            /\ r.result.type = "final" => replies[s] < MaxReplies
            /\ stt' = [stt EXCEPT ![s] = r.stt]
            /\ CASE r.result.type = "partial" ->
                      /\ logs' = [logs EXCEPT ![s] =
                                    Append(@, Ev("stt_partial", r.result.text))]
                      /\ UNCHANGED <<sm, pc>>
                 [] r.result.type = "final" ->
                      /\ logs' = [logs EXCEPT ![s] =
                                    Append(@, Ev("stt_final", r.result.text))]
                      /\ sm' = [sm EXCEPT ![s] = transition(@, PROCESSING).m]
                      /\ pc' = [pc EXCEPT ![s] = "respond"]
                 [] OTHER -> UNCHANGED <<logs, sm, pc>>
       [] OTHER -> UNCHANGED <<sm, pc, stt, logs>>
  /\ UNCHANGED <<registry, ttsPhase, ttsAbortController, nextHandle, aborted,
                 isProcessingAudio, streams, replies, starts, sink, lastCall, emitted,
                 buffer, calls, synth>>

\* handleBargeIn: cancel TTS, flush the (always empty) audioBuffer, reset TTS
BargeInAbort_noTrip(s) ==
  /\ pc[s] = "bargeIn_abort"
  /\ ttsPhase' = [ttsPhase EXCEPT ![s] = 0]
  /\ pc' = [pc EXCEPT ![s] = "bargeIn_listen"]
  /\ UNCHANGED <<registry, sm, stt, isProcessingAudio, logs, streams, replies,
                 starts, sink, lastCall, emitted, buffer, calls, synth, aborted, ttsAbortController,
                 nextHandle>>

BargeInAbort(s) ==
  /\ pc[s] = "bargeIn_abort"
  /\ IF ttsAbortController[s] # 0
       THEN /\ aborted' = [aborted EXCEPT ![s] = @ \cup {ttsAbortController[s]}]
            /\ ttsAbortController' = [ttsAbortController EXCEPT ![s] = nextHandle[s] + 1]
            /\ nextHandle' = [nextHandle EXCEPT ![s] = @ + 1]
       ELSE UNCHANGED <<aborted, ttsAbortController, nextHandle>>
  /\ ttsPhase' = [ttsPhase EXCEPT ![s] = 0]
  /\ pc' = [pc EXCEPT ![s] = "bargeIn_listen"]
  /\ UNCHANGED <<registry, sm, stt, isProcessingAudio, logs, streams, replies,
                 starts, sink, lastCall, emitted, buffer, calls, synth>>

\* handleBargeIn: back to LISTENING, reset STT, record barge_in
BargeInListen_sharedRecogniser(s) ==
  /\ pc[s] = "bargeIn_listen"
  /\ sm' = [sm EXCEPT ![s] = transition(@, LISTENING).m]
  /\ stt' = [t \in SessionIds |-> sttReset(stt[t])]
  /\ logs' = [logs EXCEPT ![s] = Append(@, Ev("barge_in", <<>>))]
  /\ pc' = [pc EXCEPT ![s] = "idle"]
  /\ UNCHANGED <<registry, ttsPhase, ttsAbortController, nextHandle, aborted,
                 isProcessingAudio, streams, replies, starts, sink, lastCall, emitted,
                 buffer, calls, synth>>

BargeInListen_staysInterrupted(s) ==
  /\ pc[s] = "bargeIn_listen"
  /\ stt' = [stt EXCEPT ![s] = sttReset(@)]
  /\ logs' = [logs EXCEPT ![s] = Append(@, Ev("barge_in", <<>>))]
  /\ pc' = [pc EXCEPT ![s] = "idle"]
  /\ UNCHANGED <<registry, ttsPhase, ttsAbortController, nextHandle, aborted,
                 isProcessingAudio, streams, replies, starts, sink, lastCall, emitted,
                 buffer, calls, synth, sm>>

BargeInListen(s) ==
  /\ pc[s] = "bargeIn_listen"
  /\ sm' = [sm EXCEPT ![s] = transition(@, LISTENING).m]
  /\ stt' = [stt EXCEPT ![s] = sttReset(@)]
  /\ logs' = [logs EXCEPT ![s] = Append(@, Ev("barge_in", <<>>))]
  /\ pc' = [pc EXCEPT ![s] = "idle"]
  /\ UNCHANGED <<registry, ttsPhase, ttsAbortController, nextHandle, aborted,
                 isProcessingAudio, streams, replies, starts, sink, lastCall, emitted,
                 buffer, calls, synth>>

\* this.ttsAbortController = new AbortController() in generateResponse
responseController_reuse(s) ==
  IF ttsAbortController[s] # 0 THEN ttsAbortController[s] ELSE nextHandle[s] + 1

responseController(s) == nextHandle[s] + 1

\* the end of the for-await loop of generateResponse: "Finished speaking normally"
onStreamComplete_noTransition(m) == m

onStreamComplete(m) == transition(m, LISTENING).m

\* generateResponse(result.text) up to the first delay of the generator;
\* result.text is the text of the stt_final event just logged
GenerateResponse(s) ==
  /\ pc[s] = "respond"
  /\ LET userText == logs[s][Len(logs[s])].text
         botResponse == botResponseFor(userText)
         r == replies[s] + 1
         h == responseController(s)
         total == streamFrames(botResponse)
         speaking == transition(sm[s], SPEAKING).m
         log1 == Append(logs[s], Ev("tts_start", botResponse))
         ends == ~(0 < total) \/ abortSignalAborted(aborted[s], h, h)
     IN /\ replies' = [replies EXCEPT ![s] = r]
        /\ ttsAbortController' = [ttsAbortController EXCEPT ![s] = h]
        /\ nextHandle' = [nextHandle EXCEPT ![s] = Max(@, h)]
        /\ IF ends
             THEN /\ logs' = [logs EXCEPT ![s] = Append(log1, Ev("tts_complete", <<>>))]
                  /\ sm' = [sm EXCEPT ![s] = onStreamComplete(speaking)]
                  /\ ttsPhase' = [ttsPhase EXCEPT ![s] = 0]
                  /\ streams' = [streams EXCEPT ![s][r] =
                                   [NoStream EXCEPT !.status = "done", !.signal = h]]
             ELSE /\ logs' = [logs EXCEPT ![s] = log1]
                  /\ sm' = [sm EXCEPT ![s] = speaking]
                  /\ ttsPhase' = [ttsPhase EXCEPT ![s] = @ + 1]
                  /\ streams' = [streams EXCEPT ![s][r] =
                                   [status |-> "delay", frameIndex |-> 0,
                                    chunkCount |-> 0, signal |-> h, total |-> total]]
  /\ pc' = [pc EXCEPT ![s] = "idle"]
  /\ UNCHANGED <<registry, stt, aborted, isProcessingAudio, starts, sink, lastCall, emitted,
                 buffer, calls, synth>>

\* the delay of reply r's generator elapses: the generator yields the frame it
\* generated before the delay, the loop body sends it and checks the signal,
\* and the generator runs on to its next delay or to its end
StreamWake(s, r) ==
  /\ Quiescent
  /\ streams[s][r].status = "delay"
  /\ LET st == streams[s][r]
         log1 == IF st.chunkCount = 0
                   THEN Append(logs[s], Ev("tts_first_chunk", <<>>))
                   ELSE logs[s]
         cancelled == abortSignalAborted(aborted[s], ttsAbortController[s], st.signal)
         next == st.frameIndex + 1
         ends == ~(next < st.total) \/ cancelled
         done == [NoStream EXCEPT !.status = "done", !.signal = st.signal]
     IN /\ sink' = [sink EXCEPT ![s] = Append(@, <<r, st.frameIndex>>)]
        /\ IF cancelled
             THEN \* return from generateResponse: "TTS cancelled"
                  /\ logs' = [logs EXCEPT ![s] = log1]
                  /\ streams' = [streams EXCEPT ![s][r] = done]
                  /\ UNCHANGED <<sm, ttsPhase>>
             ELSE IF ends
               THEN /\ logs' = [logs EXCEPT ![s] = Append(log1, Ev("tts_complete", <<>>))]
                    /\ sm' = [sm EXCEPT ![s] = onStreamComplete(@)]
                    /\ ttsPhase' = [ttsPhase EXCEPT ![s] = 0]
                    /\ streams' = [streams EXCEPT ![s][r] = done]
               ELSE /\ logs' = [logs EXCEPT ![s] = log1]
                    /\ ttsPhase' = [ttsPhase EXCEPT ![s] = @ + 1]
                    /\ streams' = [streams EXCEPT ![s][r] =
                                     [st EXCEPT !.frameIndex = next,
                                                !.chunkCount = @ + 1]]
                    /\ UNCHANGED sm
  /\ UNCHANGED <<registry, stt, ttsAbortController, nextHandle, aborted,
                 isProcessingAudio, replies, starts, pc, lastCall, emitted, buffer, calls, synth>>

\* SessionManager.removeSession: Session.close, then delete from the registry
RemoveSession_keepsProcessing(s) ==
  /\ Quiescent
  /\ s \in registry
  /\ IF ttsAbortController[s] # 0
       THEN aborted' = [aborted EXCEPT ![s] = @ \cup {ttsAbortController[s]}]
       ELSE UNCHANGED aborted
  /\ logs' = [logs EXCEPT ![s] = Append(@, Ev("session_close", <<>>))]
  /\ registry' = registry \ {s}
  /\ UNCHANGED <<sm, stt, ttsPhase, ttsAbortController, nextHandle, streams,
                 replies, starts, sink, pc, lastCall, emitted,
                 buffer, calls, synth, isProcessingAudio>>

RemoveSession(s) ==
  /\ Quiescent
  /\ s \in registry
  /\ IF ttsAbortController[s] # 0
       THEN aborted' = [aborted EXCEPT ![s] = @ \cup {ttsAbortController[s]}]
       ELSE UNCHANGED aborted
  /\ isProcessingAudio' = [isProcessingAudio EXCEPT ![s] = FALSE]
  /\ logs' = [logs EXCEPT ![s] = Append(@, Ev("session_close", <<>>))]
  /\ registry' = registry \ {s}
  /\ UNCHANGED <<sm, stt, ttsPhase, ttsAbortController, nextHandle, streams,
                 replies, starts, sink, pc, lastCall, emitted, buffer, calls, synth>>

\* the Session methods leave the connection closures of index.js alone
Next ==
  \/ \E s \in SessionIds : Start(s) /\ UNCHANGED conn
  \/ \E s \in SessionIds : \E frame \in InputFrames :
       ProcessAudioFrame(s, frame) /\ UNCHANGED conn
  \/ \E s \in SessionIds : BargeInAbort(s) /\ UNCHANGED conn
  \/ \E s \in SessionIds : BargeInListen(s) /\ UNCHANGED conn
  \/ \E s \in SessionIds : GenerateResponse(s) /\ UNCHANGED conn
  \/ \E s \in SessionIds : \E r \in 1..MaxReplies : StreamWake(s, r) /\ UNCHANGED conn
  \/ \E s \in SessionIds : RemoveSession(s) /\ UNCHANGED conn

Spec == Init /\ [][Next]_vars

\* timers fire and a handler that has started runs on to its end
FairSpec ==
  /\ Spec
  /\ \A s \in SessionIds : \A r \in 1..MaxReplies :
       WF_vars(StreamWake(s, r) /\ UNCHANGED conn)
  /\ \A s \in SessionIds :
       WF_vars((BargeInAbort(s) \/ BargeInListen(s) \/ GenerateResponse(s))
                 /\ UNCHANGED conn)

\* ------------------------------------------- the state machine on its own
\* the StateMachine of session A driven through its public methods
sessionVars == <<registry, stt, ttsPhase, ttsAbortController, nextHandle, aborted,
                 isProcessingAudio, logs, streams, replies, starts, sink, pc, emitted,
                 buffer, calls, synth, conn>>

Targets == SessionState \cup {"UNKNOWN"}

\* stateMachine.transition(to)
SMTransition(to) ==
  /\ Len(sm["A"].history) < MaxHistory
  /\ LET r == transition(sm["A"], to)
     IN /\ sm' = [sm EXCEPT !["A"] = r.m]
        /\ lastCall' = [op |-> "transition", to |-> to, ok |-> r.ok, before |-> sm["A"]]
  /\ UNCHANGED sessionVars

\* stateMachine.reset()
SMReset ==
  /\ Len(sm["A"].history) < MaxHistory
  /\ sm' = [sm EXCEPT !["A"] = transition(@, IDLE).m]
  /\ lastCall' = [op |-> "reset", to |-> IDLE, ok |-> FALSE, before |-> sm["A"]]
  /\ UNCHANGED sessionVars

\* stateMachine.onStateChange(listener)
SMOnStateChange ==
  /\ sm["A"].listeners < MaxListeners
  /\ sm' = [sm EXCEPT !["A"].listeners = @ + 1]
  /\ lastCall' = [op |-> "onStateChange", to |-> IDLE, ok |-> FALSE, before |-> sm["A"]]
  /\ UNCHANGED sessionVars

\* the unsubscribe function onStateChange returned
SMUnsubscribe ==
  /\ sm["A"].listeners > 0
  /\ sm' = [sm EXCEPT !["A"].listeners = @ - 1]
  /\ lastCall' = [op |-> "unsubscribe", to |-> IDLE, ok |-> FALSE, before |-> sm["A"]]
  /\ UNCHANGED sessionVars

NextSM ==
  \/ \E to \in Targets : SMTransition(to)
  \/ SMReset
  \/ SMOnStateChange
  \/ SMUnsubscribe

SpecSM == Init /\ [][NextSM]_vars

\* ---------------------------------------------- the recogniser on its own
\* the FakeSTT of session A fed frame by frame
nonSttVars ==
  <<registry, sm, ttsPhase, ttsAbortController, nextHandle, aborted,
    isProcessingAudio, logs, streams, replies, starts, sink, pc, lastCall,
    buffer, calls, synth, conn>>

\* stt.processFrame(frame); a returned event joins the utterance's events,
\* and the event after a Final opens the next utterance
STTProcessFrame(frame) ==
  /\ hasVoice(frame) => stt["A"].voiceFrames < MaxUtteranceVoice
  /\ LET r == processFrame(stt["A"], frame)
         open == IF emitted # <<>> /\ emitted[Len(emitted)].type = "final"
                   THEN <<>> ELSE emitted
     IN /\ stt' = [stt EXCEPT !["A"] = r.stt]
        /\ emitted' = IF r.result.type = "none" THEN emitted
                      ELSE Append(open, r.result)
  /\ UNCHANGED nonSttVars

\* stt.reset(): the utterance in progress is abandoned
STTReset ==
  /\ stt' = [stt EXCEPT !["A"] = sttReset(@)]
  /\ emitted' = <<>>
  /\ UNCHANGED nonSttVars

NextSTT ==
  \/ \E frame \in InputFrames : STTProcessFrame(frame)
  \/ STTReset

SpecSTT == Init /\ [][NextSTT]_vars

\* ------------------------------------------------------------ audio processor
\* buffers are sequences of bytes 0..255; offsets are 0-based as in the source
RECURSIVE Gcd(_, _)
Gcd(a, b) == IF b = 0 THEN a ELSE Gcd(b, a % b)

\* Buffer.readInt16LE(offset)
readInt16LE(buf, offset) ==
  LET u == buf[offset + 1] + 256 * buf[offset + 2]
  IN IF u >= 32768 THEN u - 65536 ELSE u

\* the two bytes Buffer.writeInt16LE(value, ...) stores
writeInt16LE(value) == <<value % 256, (value \div 256) % 256>>

\* a read of two bytes at offset lies inside a buffer of len bytes; outside,
\* readInt16LE throws a RangeError
inRange(offset, len) == offset >= 0 /\ offset + 2 <= len

NoData == [threw |-> TRUE, data |-> <<>>]

\* simpleResample(input, inputRate, outputRate); the rates as the fraction
\* p/q in lowest terms, so that i * inputRate / outputRate = i * p / q
simpleResample(input, inputRate, outputRate) ==
  LET len == Len(input)
      g == Gcd(inputRate, outputRate)
      p == inputRate \div g
      q == outputRate \div g
      outputSamples == (len * q) \div (2 * p)
      srcIndexFloor(i) == (i * p) \div q
      off1(i) == srcIndexFloor(i) * 2
      \* Math.min(srcIndexFloor + 1, inputSamples - 1) * 2
      off2(i) == Min((srcIndexFloor(i) + 1) * 2, len - 2)
      interpolated(i) ==
        LET sample1 == readInt16LE(input, off1(i))
            sample2 == readInt16LE(input, off2(i))
            num == (i * p) % q
        IN (2 * (sample1 * q + (sample2 - sample1) * num) + q) \div (2 * q)
  IN IF \E i \in 0..(outputSamples - 1) : ~inRange(off1(i), len) \/ ~inRange(off2(i), len)
       THEN NoData
       ELSE [threw |-> FALSE,
             data |-> [k \in 1..(2 * outputSamples) |->
                         writeInt16LE(interpolated((k - 1) \div 2))[((k - 1) % 2) + 1]]]

RECURSIVE SumChannels(_, _, _, _)
SumChannels(input, i, channels, ch) ==
  IF ch = channels THEN 0
  ELSE readInt16LE(input, (i * channels + ch) * 2)
         + SumChannels(input, i, channels, ch + 1)

\* convertToMono(input, channels): the loop runs while i < length / (2 * channels),
\* so a length that is no multiple of 2 * channels ends in a read past the end
convertToMono(input, channels) ==
  LET len == Len(input)
      sampleCount == len \div (2 * channels)
      mean(i) == (2 * SumChannels(input, i, channels, 0) + channels) \div (2 * channels)
  IN IF len % (2 * channels) # 0
       THEN NoData
       ELSE [threw |-> FALSE,
             data |-> [k \in 1..(2 * sampleCount) |->
                         writeInt16LE(mean((k - 1) \div 2))[((k - 1) % 2) + 1]]]

\* the while loop of processAudioData
RECURSIVE extractFrames_keepsFullFrame(_)
extractFrames_keepsFullFrame(buf) ==
  IF Len(buf) > bytesPerFrame
    THEN LET rest == extractFrames_keepsFullFrame(SubSeq(buf, bytesPerFrame + 1, Len(buf)))
         IN [frames |-> <<SubSeq(buf, 1, bytesPerFrame)>> \o rest.frames,
             buffer |-> rest.buffer]
    ELSE [frames |-> <<>>, buffer |-> buf]

RECURSIVE extractFrames(_)
extractFrames(buf) ==
  IF Len(buf) >= bytesPerFrame
    THEN LET rest == extractFrames(SubSeq(buf, bytesPerFrame + 1, Len(buf)))
         IN [frames |-> <<SubSeq(buf, 1, bytesPerFrame)>> \o rest.frames,
             buffer |-> rest.buffer]
    ELSE [frames |-> <<>>, buffer |-> buf]

\* the resampled and down-mixed block of processAudioData
processedData(audioData, sourceSampleRate, sourceChannels) ==
  LET r1 == IF sourceSampleRate # targetSampleRate
              THEN simpleResample(audioData, sourceSampleRate, targetSampleRate)
              ELSE [threw |-> FALSE, data |-> audioData]
  IN IF ~r1.threw /\ sourceChannels > 1
       THEN convertToMono(r1.data, sourceChannels)
       ELSE r1

\* processAudioData on an AudioProcessor whose buffer is buf: the returned
\* frames and the buffer after the call; a call that throws returns nothing
\* and has not yet assigned the buffer
appendAndExtract(buf, d) ==
  LET e == extractFrames(buf \o d.data)
  IN IF d.threw
       THEN [threw |-> TRUE, frames |-> <<>>, buffer |-> buf]
       ELSE [threw |-> FALSE, frames |-> e.frames, buffer |-> e.buffer]

processAudioData(buf, audioData, sourceSampleRate, sourceChannels) ==
  appendAndExtract(buf, processedData(audioData, sourceSampleRate, sourceChannels))

\* ------------------------------------------ the audio processor on its own
\* the AudioProcessor of a connection driven through its public methods
nonProcessorVars ==
  <<registry, sm, stt, ttsPhase, ttsAbortController, nextHandle, aborted,
    isProcessingAudio, logs, streams, replies, starts, sink, pc, lastCall, emitted,
    synth, conn>>

\* sample i of the inbound signal, a sawtooth within the 16-bit range
waveSample(i) == ((i * 7919) % 20001) - 10000

\* the first n bytes of the signal as 16-bit little-endian PCM; an odd n ends
\* in the middle of a sample
Block(n) == [k \in 1..n |-> writeInt16LE(waveSample((k - 1) \div 2))[((k - 1) % 2) + 1]]

\* byte lengths of the inbound blocks: a few samples, an odd length, a frame
\* less one sample, 20 ms at 48 kHz (the block of the resampling test)
BlockLengths == {2, 4, 7, 8, 638, 1920}

\* source rate and channel count of a block
SourceFormats == {<<16000, 1>>, <<48000, 1>>, <<8000, 1>>, <<16000, 2>>, <<48000, 2>>}

\* processedData of every inbound block, computed once
ProcessedBlocks ==
  [n \in BlockLengths |->
     [f \in SourceFormats |-> processedData(Block(n), f[1], f[2])]]

\* audioProcessor.processAudioData(block, rate, channels)
PushAudio(n, rate, channels) ==
  /\ Len(calls) < MaxCalls
  /\ LET r == appendAndExtract(buffer, ProcessedBlocks[n][<<rate, channels>>])
     IN /\ buffer' = r.buffer
        /\ calls' = Append(calls, [op |-> "processAudioData", bytes |-> n,
                                   rate |-> rate, channels |-> channels,
                                   before |-> buffer, threw |-> r.threw,
                                   frames |-> r.frames])
  /\ UNCHANGED nonProcessorVars

\* audioProcessor.clearBuffer()
ClearBuffer ==
  /\ Len(calls) < MaxCalls
  /\ buffer' = <<>>
  /\ calls' = Append(calls, [op |-> "clearBuffer", bytes |-> 0, rate |-> 0,
                             channels |-> 0, before |-> buffer, threw |-> FALSE,
                             frames |-> <<>>])
  /\ UNCHANGED nonProcessorVars

NextProcessor ==
  \/ \E n \in BlockLengths : \E f \in SourceFormats : PushAudio(n, f[1], f[2])
  \/ ClearBuffer

SpecProcessor == Init /\ [][NextProcessor]_vars

\* -------------------------------------------- the synthesizer on its own
\* one FakeTTS.generateAudioStream(text, signal) consumed by a for-await loop
nonSynthVars ==
  <<registry, sm, stt, ttsPhase, ttsAbortController, nextHandle, aborted,
    isProcessingAudio, logs, streams, replies, starts, sink, pc, lastCall, emitted,
    buffer, calls, conn>>

\* a text of w words separated by single spaces
Text(w) == [k \in 1..(2 * w - 1) |-> IF k % 2 = 1 THEN "a" ELSE " "]

\* the generator runs from its loop test to its next delay, or returns
synthAdvance(g) ==
  IF g.frameIndex < totalFrames(g.text) /\ ~g.aborted
    THEN [g EXCEPT !.status = "delay"]
    ELSE [g EXCEPT !.status = "done"]

\* the first next() of the loop over generateAudioStream(text, signal)
SynthStart(w) ==
  /\ synth.status = "none"
  /\ synth' = synthAdvance([NoSynth EXCEPT !.text = Text(w)])
  /\ UNCHANGED nonSynthVars

\* the delay elapses: the frame is yielded, the consumer takes it and asks
\* for the next one
SynthWake ==
  /\ synth.status = "delay"
  /\ synth' = synthAdvance([synth EXCEPT !.chunks = @ + 1, !.frameIndex = @ + 1])
  /\ UNCHANGED nonSynthVars

\* abortController.abort() while the generator waits
SynthAbort ==
  /\ synth.status = "delay"
  /\ ~synth.aborted
  /\ synth' = [synth EXCEPT !.aborted = TRUE]
  /\ UNCHANGED nonSynthVars

NextSynth ==
  \/ \E w \in 1..MaxWords : SynthStart(w)
  \/ SynthWake
  \/ SynthAbort

SpecSynth == Init /\ [][NextSynth]_vars

\* ------------------------------------------------ the signalling connection
\* the handlers wss.on('connection') installs for the connection whose
\* sessionId is "A", from the moment the socket is accepted
ConnIds == {"A"}

nonConnVars ==
  <<registry, sm, stt, ttsPhase, ttsAbortController, nextHandle, aborted,
    isProcessingAudio, logs, streams, replies, starts, sink, pc, lastCall, emitted,
    buffer, calls, synth>>

\* conn[c].audio when the callback that ran last was not the audio sink's
NoAudio == [handled |-> FALSE, frame |-> <<>>, normalized |-> FALSE]

\* inbound frames of the connection: a frame just below the threshold
\* (rms 0.01999) and a loud frame
ConnFrames == {<<655, 655>>, <<-16000, 16000>>}

\* ws 'message' with type offer, up to the first await of handleOffer: a new
\* RTCPeerConnection and a new WebRTCAudioHandler replace the closure's; the
\* client closes the socket right after its close message, so no offer
\* follows a close
ReceiveOffer(c) ==
  /\ Quiescent
  /\ conn[c].wsOpen
  /\ ~conn[c].pending
  /\ conn[c].closes = 0
  /\ conn[c].offers < MaxOffers
  /\ conn' = [conn EXCEPT ![c] =
                [@ EXCEPT !.offers = @ + 1,
                          !.pending = TRUE,
                          !.audioHandler = conn[c].offers + 1,
                          !.connectionState = "new",
                          !.audio = NoAudio]]
  /\ UNCHANGED nonConnVars

\* handleOffer after its awaits: createSession returns the registered session
\* if there is one, else registers a new one holding the current handler;
\* then session.start(). Nothing in handleOffer looks at whether handleClose
\* has run meanwhile: when the awaited call still resolves, the continuation
\* creates and starts the session on the closed connection. (A continuation
\* that would replace a closed session by a second Session object under the
\* same id is followed on its rejecting outcome only.)
AnswerOffer(c) ==
  /\ Quiescent
  /\ conn[c].pending
  /\ conn[c].connectionState = "closed" => ~conn[c].session
  /\ registry' = registry \cup {c}
  /\ starts' = [starts EXCEPT ![c] = @ + 1]
  /\ logs' = [logs EXCEPT ![c] = Append(@, Ev("session_start", <<>>))]
  /\ sm' = [sm EXCEPT ![c] = transition(@, LISTENING).m]
  /\ isProcessingAudio' = [isProcessingAudio EXCEPT ![c] = TRUE]
  /\ conn' = [conn EXCEPT ![c] =
                [@ EXCEPT !.pending = FALSE,
                          !.session = TRUE,
                          !.sessionHandler =
                             IF c \in registry THEN @ ELSE conn[c].audioHandler,
                          !.audio = NoAudio]]
  /\ UNCHANGED <<stt, ttsPhase, ttsAbortController, nextHandle, aborted, streams,
                 replies, sink, pc, lastCall, emitted, buffer, calls, synth>>

\* handleOffer after its awaits when handleClose has closed the peer
\* connection meanwhile and the awaited call rejects: the message handler
\* reports the error
FailOffer(c) ==
  /\ Quiescent
  /\ conn[c].pending
  /\ conn[c].connectionState = "closed"
  /\ conn' = [conn EXCEPT ![c] = [@ EXCEPT !.pending = FALSE,
                                           !.audio = NoAudio]]
  /\ UNCHANGED nonConnVars

\* peerConnection.onconnectionstatechange
ConnectionStateChange(c, state) ==
  /\ Quiescent
  /\ \/ conn[c].connectionState = "new"
     \/ conn[c].connectionState = "connected" /\ state = "failed"
  /\ conn' = [conn EXCEPT ![c] = [@ EXCEPT !.connectionState = state,
                                           !.audio = NoAudio]]
  /\ IF state = "connected" /\ conn[c].session
       THEN logs' = [logs EXCEPT ![c] = Append(@, Ev("webrtc_connected", <<>>))]
       ELSE UNCHANGED logs
  /\ UNCHANGED <<registry, sm, stt, ttsPhase, ttsAbortController, nextHandle, aborted,
                 isProcessingAudio, streams, replies, starts, sink, pc, lastCall,
                 emitted, buffer, calls, synth>>

\* the sink callback of handleIncomingAudioTrack for a block that yields one
\* frame; a sink delivers until its handler is destroyed
InboundAudio(c, frame) ==
  /\ Quiescent
  /\ \E h \in 1..conn[c].offers : h \notin conn[c].destroyed
  /\ IF ~conn[c].session \/ ~isProcessingAudio[c]
       THEN /\ conn' = [conn EXCEPT ![c].audio =
                          [handled |-> TRUE, frame |-> frame, normalized |-> FALSE]]
            /\ UNCHANGED nonConnVars
       ELSE /\ conn' = [conn EXCEPT ![c].audio =
                          [handled |-> TRUE, frame |-> frame, normalized |-> TRUE]]
            /\ ProcessAudioFrame(c, frame)

\* handleClose, run for a close message (socketClosed = FALSE) and for the
\* socket's close event: removeSession if the closure holds a session,
\* audioHandler.destroy(), peerConnection.close()
HandleClose_closesAgain(c, socketClosed) ==
  /\ Quiescent
  /\ conn[c].wsOpen
  /\ ~socketClosed => conn[c].closes < MaxCloseMessages
  /\ IF conn[c].session
       THEN /\ IF ttsAbortController[c] # 0
                 THEN aborted' = [aborted EXCEPT ![c] = @ \cup {ttsAbortController[c]}]
                 ELSE UNCHANGED aborted
            /\ isProcessingAudio' = [isProcessingAudio EXCEPT ![c] = FALSE]
            /\ logs' = [logs EXCEPT ![c] = Append(@, Ev("session_close", <<>>))]
            /\ registry' = registry \ {c}
            /\ UNCHANGED <<sm, stt, ttsPhase, ttsAbortController, nextHandle, streams,
                           replies, starts, sink, pc, lastCall, emitted, buffer, calls,
                           synth>>
       ELSE UNCHANGED nonConnVars
  /\ conn' = [conn EXCEPT ![c] =
                [@ EXCEPT !.closes = @ + 1,
                          !.wsOpen = ~socketClosed,
                          !.destroyed = @ \cup (IF conn[c].audioHandler # 0
                                                  THEN {conn[c].audioHandler} ELSE {}),
                          !.connectionState = IF conn[c].offers > 0 THEN "closed" ELSE @,
                          !.audio = NoAudio]]

HandleClose(c, socketClosed) ==
  /\ Quiescent
  /\ conn[c].wsOpen
  /\ ~socketClosed => conn[c].closes < MaxCloseMessages
  /\ IF conn[c].session /\ c \in registry
       THEN RemoveSession(c)
       ELSE UNCHANGED nonConnVars
  /\ conn' = [conn EXCEPT ![c] =
                [@ EXCEPT !.closes = @ + 1,
                          !.wsOpen = ~socketClosed,
                          !.destroyed = @ \cup (IF conn[c].audioHandler # 0
                                                  THEN {conn[c].audioHandler} ELSE {}),
                          !.connectionState = IF conn[c].offers > 0 THEN "closed" ELSE @,
                          !.audio = NoAudio]]

\* ws 'error': the error is printed
SocketError(c) ==
  /\ Quiescent
  /\ conn[c].wsOpen
  /\ conn' = [conn EXCEPT ![c].audio = NoAudio]
  /\ UNCHANGED nonConnVars

\* WebRTCAudioHandler.sendAudio: false without an audio source, and false
\* when audioSource.onData throws inside its try block
sendAudio_rethrows(k, thrown) ==
  IF k.sessionHandler \in k.destroyed THEN "false"
  ELSE IF thrown THEN "throws"
  ELSE "true"

sendAudio(k, thrown) ==
  IF k.sessionHandler \in k.destroyed THEN "false"
  ELSE IF thrown THEN "false"
  ELSE "true"

\* the timer of reply r fires; sendAudioToBrowser hands the frame to the
\* handler the session was created with and ignores what sendAudio returns;
\* an exception out of it would end the loop in the catch block of
\* generateResponse
StreamWakeConn(c, r, thrown) ==
  /\ thrown => conn[c].thrown < MaxThrown
  /\ LET returned == sendAudio(conn[c], thrown)
         frame == <<r, streams[c][r].frameIndex>>
     IN /\ conn' = [conn EXCEPT ![c] =
                      [@ EXCEPT !.failed = IF returned = "true" THEN @
                                           ELSE Append(@, frame),
                                !.thrown = IF thrown THEN @ + 1 ELSE @,
                                !.audio = NoAudio]]
        /\ IF returned = "throws"
             THEN /\ Quiescent
                  /\ streams[c][r].status = "delay"
                  /\ sink' = [sink EXCEPT ![c] = Append(@, frame)]
                  /\ logs' = [logs EXCEPT ![c] =
                                IF streams[c][r].chunkCount = 0
                                  THEN Append(@, Ev("tts_first_chunk", <<>>))
                                  ELSE @]
                  /\ streams' = [streams EXCEPT ![c][r] =
                                   [NoStream EXCEPT !.status = "done",
                                                    !.signal = streams[c][r].signal]]
                  /\ UNCHANGED <<registry, sm, stt, ttsPhase, ttsAbortController,
                                 nextHandle, aborted, isProcessingAudio, replies, starts,
                                 pc, lastCall, emitted, buffer, calls, synth>>
             ELSE StreamWake(c, r)

NextConn ==
  /\ \/ \E c \in ConnIds : ReceiveOffer(c)
     \/ \E c \in ConnIds : AnswerOffer(c)
     \/ \E c \in ConnIds : FailOffer(c)
     \/ \E c \in ConnIds : \E state \in {"connected", "failed"} :
          ConnectionStateChange(c, state)
     \/ \E c \in ConnIds : \E frame \in ConnFrames : InboundAudio(c, frame)
     \/ \E c \in ConnIds : \E socketClosed \in BOOLEAN : HandleClose(c, socketClosed)
     \/ \E c \in ConnIds : SocketError(c)
     \/ \E c \in ConnIds : BargeInAbort(c) /\ UNCHANGED conn
     \/ \E c \in ConnIds : BargeInListen(c) /\ UNCHANGED conn
     \/ \E c \in ConnIds : GenerateResponse(c) /\ UNCHANGED conn
     \/ \E c \in ConnIds : \E r \in 1..MaxReplies : \E thrown \in BOOLEAN :
          StreamWakeConn(c, r, thrown)
  /\ \A c \in ConnIds : Len(logs'[c]) <= MaxEvents

\* no session has been created when the socket is accepted
SpecConn == InitWith({}) /\ [][NextConn]_vars

\* --------------------------------------------------- two sessions at once
\* the sessions of two connections, both registered by createSession, driven
\* through the Session methods in any interleaving the event loop allows
NextPair ==
  /\ Next
  /\ Len(logs'["A"]) + Len(logs'["B"]) <= MaxPairEvents

SpecPair == InitWith({"A", "B"}) /\ [][NextPair]_vars

\* ==================================================================== claims
ValidPairs ==
  { <<IDLE, LISTENING>>,
    <<LISTENING, PROCESSING>>, <<LISTENING, IDLE>>,
    <<PROCESSING, SPEAKING>>, <<PROCESSING, LISTENING>>, <<PROCESSING, IDLE>>,
    <<SPEAKING, INTERRUPTED>>, <<SPEAKING, LISTENING>>, <<SPEAKING, IDLE>>,
    <<INTERRUPTED, LISTENING>>, <<INTERRUPTED, IDLE>> }

IsPrefix(a, b) == Len(a) <= Len(b) /\ SubSeq(b, 1, Len(a)) = a

\* C8: the events of one utterance are Partials followed by at most one
\* Final, which comes last and only out of the processing phase (after a
\* Partial); every Partial text is a prefix of the later texts and of the
\* Final text, so Partial lengths never decrease.
C8_UtteranceShape ==
  LET n == Len(emitted)
      finalText == getNextResponse(stt["A"])
  IN /\ \A i \in 1..n : emitted[i].type \in {"partial", "final"}
     /\ \A i \in 1..n : emitted[i].type = "final" => i = n /\ i > 1
     /\ \A i \in 1..n : \A j \in 1..n :
          i < j => /\ IsPrefix(emitted[i].text, emitted[j].text)
                   /\ Len(emitted[i].text) <= Len(emitted[j].text)
     /\ stt["A"].isProcessing <=> (n > 0 /\ emitted[n].type = "partial")
     /\ stt["A"].isProcessing =>
          \A i \in 1..n : IsPrefix(emitted[i].text, finalText)
     /\ (n > 0 /\ emitted[n].type = "final") =>
          emitted[n].text \in {responses[k] : k \in 1..Len(responses)}

C8_Witness ==
  /\ Len(emitted) = 4
  /\ emitted[4].type = "final"
  /\ Len(emitted[1].text) < Len(emitted[3].text)

\* ------------------------------------------------------- session claims
Started(s) == 1..replies[s]

\* the handle the latest reply captured
RunningSignal(s) == streams[s][replies[s]].signal

\* this step hands a frame of reply r to sendAudio
SinkGrew(s, r) ==
  /\ Len(sink'[s]) = Len(sink[s]) + 1
  /\ sink'[s][Len(sink'[s])][1] = r

\* the events this step appends to the session's log
NewEvents(s) == {logs'[s][i].eventType : i \in (Len(logs[s]) + 1)..Len(logs'[s])}

\* handle h was tripped by handleBargeIn, which alone replaces the controller
\* it trips (close leaves the tripped controller in place)
TrippedByBargeIn(s, h) == h \in aborted[s] /\ h # ttsAbortController[s]

LastTwo(h) == SubSeq(h, Len(h) - 1, Len(h))

\* C3: a barge-in moves SPEAKING -> INTERRUPTED -> LISTENING with nothing in
\* between, INTERRUPTED occurs only inside a barge-in, and the running reply's
\* handle is untripped on entering INTERRUPTED and tripped before LISTENING.
C3_BargeInSequence ==
  [][\A s \in SessionIds :
       /\ (sm[s].state = INTERRUPTED) <=> (pc[s] \in {"bargeIn_abort", "bargeIn_listen"})
       /\ (pc[s] = "idle" /\ pc'[s] = "bargeIn_abort") =>
            /\ sm[s].state = SPEAKING
            /\ streams[s][replies[s]].status = "delay"
            /\ sm'[s].state = INTERRUPTED
            /\ sm'[s].history =
                 Append(sm[s].history, [from |-> SPEAKING, to |-> INTERRUPTED])
            /\ RunningSignal(s) \notin aborted'[s]
       /\ (pc[s] = "bargeIn_abort" /\ pc'[s] # "bargeIn_abort") =>
            /\ pc'[s] = "bargeIn_listen"
            /\ sm'[s] = sm[s]
            /\ RunningSignal(s) \notin aborted[s]
            /\ RunningSignal(s) \in aborted'[s]
       /\ (pc[s] = "bargeIn_listen" /\ pc'[s] # "bargeIn_listen") =>
            /\ pc'[s] = "idle"
            /\ RunningSignal(s) \in aborted[s]
            /\ sm'[s].state = LISTENING
            /\ sm'[s].history =
                 Append(sm[s].history, [from |-> INTERRUPTED, to |-> LISTENING])
            /\ LastTwo(sm'[s].history) =
                 << [from |-> SPEAKING, to |-> INTERRUPTED],
                    [from |-> INTERRUPTED, to |-> LISTENING] >>
    ]_vars

C3_Witness ==
  /\ pc["A"] = "idle"
  /\ sm["A"].state = LISTENING
  /\ logs["A"][Len(logs["A"])].eventType = "barge_in"
  /\ streams["A"][1].signal \in aborted["A"]

\* C4 as claimed: no frame of a reply is handed to the sink once a barge-in
\* has tripped the reply's handle.
C4_NoSendAfterTrip ==
  [][\A s \in SessionIds : \A r \in 1..MaxReplies :
       SinkGrew(s, r) => ~TrippedByBargeIn(s, streams[s][r].signal)
    ]_vars

\* C4 amended: the step that trips a handle neither generates nor sends a
\* frame; once a barge-in has tripped the handle of reply R, R's producer
\* generates no further frame, and the only frame of R still handed to the
\* sink is the one generated before the trip that was in its pacing wait.
C4_OnlyPendingFrameAfterTrip ==
  [][\A s \in SessionIds :
       /\ aborted'[s] # aborted[s] => streams'[s] = streams[s] /\ sink'[s] = sink[s]
       /\ \A r \in Started(s) :
            TrippedByBargeIn(s, streams[s][r].signal) =>
              /\ ~(/\ streams'[s][r].status = "delay"
                   /\ streams'[s][r].frameIndex # streams[s][r].frameIndex)
              /\ SinkGrew(s, r) =>
                   /\ streams[s][r].status = "delay"
                   /\ sink'[s][Len(sink'[s])] = <<r, streams[s][r].frameIndex>>
                   /\ streams'[s][r].status = "done"
    ]_vars

C4_Witness ==
  /\ streams["A"][1].status = "done"
  /\ TrippedByBargeIn("A", streams["A"][1].signal)
  /\ sink["A"] # <<>>
  /\ sink["A"][Len(sink["A"])][1] = 1
  /\ logs["A"][Len(logs["A"])].eventType = "barge_in"

\* C5: a stream whose handle is tripped (by barge-in or close) does nothing
\* but hand over one more frame and terminate, without completing and
\* without touching the state machine; a terminated stream sends nothing.
C5_PromptCancellation ==
  [][\A s \in SessionIds : \A r \in Started(s) :
       /\ (streams[s][r].status = "delay" /\ streams[s][r].signal \in aborted[s]
             /\ streams'[s][r] # streams[s][r]) =>
            /\ SinkGrew(s, r)
            /\ streams'[s][r].status = "done"
            /\ "tts_complete" \notin NewEvents(s)
            /\ sm'[s] = sm[s]
            /\ pc'[s] = "idle"
       /\ streams[s][r].status = "done" =>
            /\ ~SinkGrew(s, r)
            /\ streams'[s][r] = streams[s][r]
    ]_vars

C5_Witness ==
  /\ "A" \notin registry
  /\ streams["A"][1].status = "done"
  /\ streams["A"][1].signal \in aborted["A"]
  /\ sm["A"].state = SPEAKING
  /\ sink["A"] # <<>>
  /\ logs["A"][Len(logs["A"])].eventType = "session_close"

\* C6 as claimed: a session never has two synthesis streams that have been
\* started and have not terminated.
C6_AtMostOneStream ==
  \A s \in SessionIds :
    Cardinality({r \in 1..MaxReplies : streams[s][r].status = "delay"}) <= 1

\* C7: a step taken while the state is SPEAKING leaves the recogniser as it
\* was and records neither stt_partial nor stt_final.
C7_NoTranscriptWhileSpeaking ==
  [][\A s \in SessionIds :
       sm[s].state = SPEAKING =>
         /\ stt'[s] = stt[s]
         /\ NewEvents(s) \cap {"stt_partial", "stt_final"} = {}
    ]_vars

C7_Witness ==
  /\ pc["A"] = "bargeIn_abort"
  /\ stt["A"].voiceFrames = 0
  /\ ~stt["A"].isProcessing
  /\ logs["A"][Len(logs["A"])].eventType \in {"tts_start", "tts_first_chunk"}

\* C9: the handle a reply captures on entering SPEAKING is the session's
\* current controller, untripped and never allocated before; a stream keeps
\* the handle it captured; handles of different replies differ; only the
\* current controller is ever tripped, so a trip reaches no other reply's
\* stream; a tripped handle stays tripped.
C9_FreshHandlePerReply ==
  [][\A s \in SessionIds :
       /\ aborted[s] \subseteq aborted'[s]
       /\ aborted'[s] \ aborted[s] \subseteq {ttsAbortController[s]}
       /\ replies'[s] # replies[s] =>
            LET h == streams'[s][replies'[s]].signal
            IN /\ sm'[s].state = SPEAKING
               /\ h = ttsAbortController'[s]
               /\ h \notin aborted'[s]
               /\ h > nextHandle[s]
               /\ \A q \in Started(s) : streams[s][q].signal # h
       /\ \A r \in Started(s) :
            /\ streams'[s][r].signal = streams[s][r].signal
            /\ streams[s][r].signal \in aborted'[s] \ aborted[s] => r = replies[s]
            /\ (/\ streams[s][r].status = "delay"
                /\ streams'[s][r].status = "done"
                /\ "tts_complete" \notin NewEvents(s)) =>
                 streams[s][r].signal \in aborted[s]
    ]_vars

C9_Witness ==
  /\ replies["A"] = 2
  /\ streams["A"][1].signal \in aborted["A"]
  /\ streams["A"][2].status = "delay"
  /\ streams["A"][2].signal \notin aborted["A"]
  /\ streams["A"][2].signal # streams["A"][1].signal

\* the frames of reply r handed to the sink, in the order they were sent
RECURSIVE FramesOf(_, _)
FramesOf(q, r) ==
  IF q = <<>> THEN <<>>
  ELSE IF Head(q)[1] = r THEN <<Head(q)[2]>> \o FramesOf(Tail(q), r)
  ELSE FramesOf(Tail(q), r)

IsTtsStart(e) == e.eventType = "tts_start"

\* the text of reply r: that of the r-th tts_start event
ReplyText(s, r) == SelectSeq(logs[s], IsTtsStart)[r].text

Completed(s, r) ==
  /\ streams[s][r].status = "done"
  /\ FramesOf(sink[s], r) = [i \in 1..streamFrames(ReplyText(s, r)) |-> i - 1]
  /\ logs[s][Len(logs[s])].eventType = "tts_complete"
  /\ sm[s].state = LISTENING
  /\ ttsPhase[s] = 0

\* C10: a running reply whose handle stays untripped reaches the point where
\* all its frames have been sent in generation order, tts_complete is the
\* last event recorded, the state is LISTENING and the phase is reset.
Running(s) ==
  /\ replies[s] > 0
  /\ streams[s][replies[s]].status = "delay"
  /\ RunningSignal(s) \notin aborted[s]

C10_ReplyRunsToCompletion ==
  \A s \in SessionIds :
    Running(s) ~> (replies[s] > 0 /\ (RunningSignal(s) \in aborted[s]
                                       \/ Completed(s, replies[s])))

C10_Witness ==
  /\ Completed("A", 2)
  /\ streams["A"][2].signal \notin aborted["A"]
  /\ streams["A"][1].signal \notin aborted["A"]

\* C11: close() trips the session's current cancellation handle if there is
\* one, sets the audio-processing flag to false and appends exactly one
\* session_close event, in whichever state the session is when it is closed.
C11_CloseEffects ==
  [][\A s \in SessionIds :
       (s \in registry /\ s \notin registry') =>
         /\ ttsAbortController[s] # 0 => ttsAbortController[s] \in aborted'[s]
         /\ aborted'[s] \subseteq aborted[s] \cup {ttsAbortController[s]}
         /\ ~isProcessingAudio'[s]
         /\ logs'[s] = Append(logs[s], Ev("session_close", <<>>))
    ]_vars

C11_Witness ==
  /\ "A" \notin registry
  /\ sm["A"].state = LISTENING
  /\ replies["A"] = 1
  /\ ttsAbortController["A"] \in aborted["A"]
  /\ ~isProcessingAudio["A"]
  /\ logs["A"][Len(logs["A"])].eventType = "session_close"

\* the session has been closed: its log holds a session_close event
Closed(s) == \E i \in 1..Len(logs[s]) : logs[s][i].eventType = "session_close"

\* C12 as claimed: once a session has been closed and every stream the close
\* cancelled has terminated, its state machine is in IDLE.
C12_IdleAfterClose ==
  \A s \in SessionIds :
    (Closed(s) /\ \A r \in 1..MaxReplies : streams[s][r].status # "delay") =>
      sm[s].state = IDLE

\* C13: start() on a newly created session appends the accepted transition
\* IDLE -> LISTENING and sets the audio-processing flag; no step other than
\* a start() takes a session out of IDLE.
C13_StartListens ==
  [][\A s \in SessionIds :
       /\ starts'[s] # starts[s] =>
            /\ sm[s] = NewStateMachine
            /\ sm'[s].state = LISTENING
            /\ sm'[s].history = <<[from |-> IDLE, to |-> LISTENING]>>
            /\ isProcessingAudio'[s]
       /\ (sm[s].state = IDLE /\ sm'[s].state # IDLE) => starts'[s] = starts[s] + 1
    ]_vars

C13_Witness ==
  /\ starts["A"] = 1
  /\ sm["A"].state = LISTENING
  /\ sm["A"].history = <<[from |-> IDLE, to |-> LISTENING]>>
  /\ isProcessingAudio["A"]
  /\ logs["A"] = <<Ev("session_start", <<>>)>>

\* ------------------------------------------------- audio processor claims
LastCall == calls[Len(calls)]

\* C14: after every call of processAudioData or clearBuffer, whichever the
\* block's length, rate and channel count and also when the call throws,
\* the residual buffer holds fewer than 640 bytes.
C14_ResidualBelowFrame ==
  /\ Len(buffer) < 640
  /\ \A i \in 1..Len(calls) : Len(calls[i].before) < 640

C14_Witness ==
  /\ Len(calls) = 2
  /\ LastCall.op = "processAudioData"
  /\ Len(LastCall.before) = 638
  /\ Len(LastCall.frames) = 1
  /\ Len(buffer) = 2

\* the residual buffer after the i-th call
BufferAfter(i) == IF i = Len(calls) THEN buffer ELSE calls[i + 1].before

RECURSIVE Concat(_)
Concat(seqs) == IF seqs = <<>> THEN <<>> ELSE Head(seqs) \o Concat(Tail(seqs))

\* the byte count of a block of n bytes once resampled from rate to 16 kHz
\* and down-mixed from the given number of channels
ProcessedBytes(n, rate, channels) ==
  LET samples == IF rate = 16000 THEN n \div 2 ELSE ((n \div 2) * 16000) \div rate
  IN 2 * (samples \div channels)

\* C15 as claimed, for blocks of whole sample frames (a byte count that is a
\* multiple of 2 * channels, so of even length): every such call of
\* processAudioData returns floor((residual before + processed bytes) / 640)
\* frames of 640 bytes each, taken in order from the residual followed by the
\* processed block, and keeps the rest as the new residual; 960 samples at
\* 48 kHz mono pushed into a fresh processor give exactly one frame of 640
\* bytes.
C15_FrameCountLaw ==
  \A i \in 1..Len(calls) :
    LET c == calls[i]
        total == Len(c.before) + ProcessedBytes(c.bytes, c.rate, c.channels)
    IN (c.op = "processAudioData" /\ c.bytes % (2 * c.channels) = 0) =>
         /\ ~c.threw
         /\ Len(c.frames) = total \div 640
         /\ \A k \in 1..Len(c.frames) : Len(c.frames[k]) = 640
         /\ Len(BufferAfter(i)) = total % 640
         /\ Concat(c.frames) \o BufferAfter(i)
              = c.before \o ProcessedBlocks[c.bytes][<<c.rate, c.channels>>].data
         /\ (i = 1 /\ c.bytes = 1920 /\ c.rate = 48000 /\ c.channels = 1) =>
              Len(c.frames) = 1 /\ Len(BufferAfter(i)) = 0

\* C16 as claimed, for blocks of whole sample frames on which both calls
\* return: two consecutive calls processAudioData(B1), processAudioData(B2)
\* with the same source rate and channel count return, concatenated, the
\* frames that one call processAudioData(B1 ++ B2) returns from the same
\* starting residual, and leave the same residual.
C16_SplitInvariant ==
  \A i \in 1..(Len(calls) - 1) :
    LET c1 == calls[i]
        c2 == calls[i + 1]
        one == processAudioData(c1.before, Block(c1.bytes) \o Block(c2.bytes),
                                c1.rate, c1.channels)
    IN (/\ c1.op = "processAudioData" /\ c2.op = "processAudioData"
        /\ c1.rate = c2.rate /\ c1.channels = c2.channels
        /\ c1.bytes % (2 * c1.channels) = 0 /\ c2.bytes % (2 * c2.channels) = 0
        /\ ~c1.threw /\ ~c2.threw) =>
         /\ ~one.threw
         /\ one.frames = c1.frames \o c2.frames
         /\ one.buffer = BufferAfter(i + 1)

\* C17 as claimed: a call of processAudioData with a block of odd length
\* that returns, returns what the call with the block less its final byte
\* returns and leaves the same residual, and the residual holds an even
\* number of bytes after every call.
C17_OddByteTruncated ==
  \A i \in 1..Len(calls) :
    LET c == calls[i]
        cut == processAudioData(c.before, Block(c.bytes - 1), c.rate, c.channels)
    IN /\ Len(BufferAfter(i)) % 2 = 0
       /\ (c.op = "processAudioData" /\ c.bytes % 2 = 1 /\ ~c.threw) =>
            /\ c.frames = cut.frames
            /\ BufferAfter(i) = cut.buffer

\* -------------------------------------------------- synthesizer claims
\* the words of the stand-alone generator's text
SynthWords == (Len(synth.text) + 1) \div 2

\* C18 as claimed: a stream that ends without cancellation has yielded
\* ceil(max(2, w / 3) * 1000 / 20) frames, which is max(100, ceil(50 w / 3)).
C18_FrameCountCeil ==
  (synth.status = "done" /\ ~synth.aborted) =>
    synth.chunks = Max(100, (50 * SynthWords + 2) \div 3)

\* C18 amended: a stream that ends without cancellation has yielded
\* floor(max(2, w / 3) * 1000 / 20) frames, which is max(100, floor(50 w / 3)):
\* 100 frames for texts of up to 6 words, the count rounded down beyond.
C18_FrameCountFloor ==
  /\ synth.chunks <= Max(100, (50 * SynthWords) \div 3)
  /\ (synth.status = "done" /\ ~synth.aborted) =>
       /\ synth.chunks = Max(100, (50 * SynthWords) \div 3)
       /\ SynthWords <= 6 => synth.chunks = 100

C18_Witness ==
  /\ synth.status = "done"
  /\ ~synth.aborted
  /\ SynthWords = 7
  /\ synth.chunks = 116

\* --------------------------------------------------- recogniser claims
\* the event the step's processFrame call returned, if any
StepEvent ==
  IF emitted' # emitted /\ emitted' # <<>>
    THEN emitted'[Len(emitted')].type
    ELSE "none"

\* C19: from a fresh (or reset) recogniser no event is returned before the
\* 25th voiced frame, which returns a Partial and starts processing; a voiced
\* frame zeroes the silence count; while processing, a silent frame below
\* the 15th consecutive one returns nothing; the Final is returned exactly on
\* the 15th consecutive silent frame and leaves both counters at zero and
\* the processing flag false.
C19_VoiceStartSilenceEnd ==
  [][LET a == stt["A"]
         b == stt'["A"]
         voiced == b.voiceFrames = a.voiceFrames + 1
         silent == b.silenceFrames = a.silenceFrames + 1
     IN /\ (voiced /\ ~a.isProcessing /\ b.voiceFrames < 25) =>
             StepEvent = "none" /\ ~b.isProcessing
        /\ (voiced /\ ~a.isProcessing /\ b.voiceFrames = 25) =>
             StepEvent = "partial" /\ b.isProcessing
        /\ voiced => b.silenceFrames = 0 /\ StepEvent # "final"
        /\ silent => /\ a.isProcessing /\ b.isProcessing
                     /\ StepEvent = "none"
                     /\ b.voiceFrames = a.voiceFrames
        /\ b.silenceFrames < 15
        /\ b.isProcessing <=> b.voiceFrames >= 25
        /\ StepEvent = "final" =>
             /\ a.isProcessing /\ a.voiceFrames >= 25 /\ a.silenceFrames = 14
             /\ b.voiceFrames = 0 /\ b.silenceFrames = 0 /\ ~b.isProcessing
             /\ Cardinality({k \in 1..Len(emitted') : emitted'[k].type = "final"}) = 1
    ]_vars

C19_Witness ==
  /\ Len(emitted) = 3
  /\ emitted[1].type = "partial" /\ emitted[2].type = "partial"
  /\ emitted[3].type = "final"
  /\ stt["A"].voiceFrames = 0 /\ stt["A"].silenceFrames = 0
  /\ ~stt["A"].isProcessing

\* the recogniser's counters are zero and it is not processing
SttIdle(r) == r.voiceFrames = 0 /\ r.silenceFrames = 0 /\ ~r.isProcessing

\* C20: while a session's state is IDLE, PROCESSING, SPEAKING or INTERRUPTED
\* its recogniser has both counters at zero and is not processing, and the
\* step of a barge-in that returns the session to LISTENING leaves it so.
C20_CountersZeroOutsideListening ==
  [][\A s \in SessionIds :
       /\ sm'[s].state # LISTENING => SttIdle(stt'[s])
       /\ (sm[s].state = INTERRUPTED /\ sm'[s].state = LISTENING) => SttIdle(stt'[s])
    ]_vars

C20_Witness ==
  /\ sm["A"].state = INTERRUPTED
  /\ replies["A"] = 2
  /\ SttIdle(stt["A"])
  /\ stt["A"].responseIndex = 2


\* ------------------------------------------------ session claims, continued
\* C30: PROCESSING and INTERRUPTED are transient: whenever the event loop can
\* start the next callback (no handler is in progress), every session's state
\* is IDLE, LISTENING or SPEAKING; PROCESSING is held only between the Final
\* and the start of its reply, INTERRUPTED only inside handleBargeIn.
C30_TransientStates ==
  \A s \in SessionIds :
    /\ Quiescent => sm[s].state \in {IDLE, LISTENING, SPEAKING}
    /\ sm[s].state = PROCESSING <=> pc[s] = "respond"
    /\ sm[s].state = INTERRUPTED <=> pc[s] \in {"bargeIn_abort", "bargeIn_listen"}

C30_Witness ==
  /\ Quiescent
  /\ sm["A"].state = LISTENING
  /\ \E i \in 1..Len(sm["A"].history) : sm["A"].history[i].to = PROCESSING
  /\ sm["A"].history[Len(sm["A"].history)].from = INTERRUPTED

\* reply r's stream is suspended in its pacing wait with its handle tripped
Cancelled(s, r) ==
  /\ streams[s][r].status = "delay"
  /\ streams[s][r].signal \in aborted[s]

\* C28: a cancelled reply never completes: the step that ends a stream whose
\* handle is tripped records no tts_complete and leaves the state machine as
\* it is, whatever a later reply has done to the state meanwhile; every
\* tts_complete is recorded by a stream whose handle is untripped.
C28_CancelledNeverCompletes ==
  [][\A s \in SessionIds :
       /\ \A r \in Started(s) :
            (Cancelled(s, r) /\ streams'[s][r].status # "delay") =>
              /\ "tts_complete" \notin NewEvents(s)
              /\ sm'[s] = sm[s]
              /\ ttsPhase'[s] = ttsPhase[s]
       /\ "tts_complete" \in NewEvents(s) =>
            \E r \in 1..replies'[s] :
              /\ streams'[s][r].status = "done"
              /\ r \in Started(s) => streams[s][r].status = "delay"
              /\ streams'[s][r].signal \notin aborted[s]
    ]_vars

C28_Witness ==
  /\ replies["A"] = 2
  /\ streams["A"][1].status = "done"
  /\ TrippedByBargeIn("A", streams["A"][1].signal)
  /\ streams["A"][2].status = "delay"
  /\ sm["A"].state = SPEAKING
  /\ sink["A"][Len(sink["A"])][1] = 1
  /\ \A i \in 1..Len(logs["A"]) : logs["A"][i].eventType # "tts_complete"

IsBargeIn(e) == e.eventType = "barge_in"

\* the replies of s whose handle a barge-in has tripped
BargedIn(s) == {r \in Started(s) : TrippedByBargeIn(s, streams[s][r].signal)}

\* C25: every barge_in event belongs to a different reply, so a reply is
\* barged-in at most once and barge_in events never outnumber tts_start
\* events; one barge-in records one event, after its handle has been tripped;
\* once the event is recorded the handler is over and the state is LISTENING,
\* so the following frames go to the recogniser.
C25_OneBargeInPerReply ==
  \A s \in SessionIds :
    LET bargeIns == Len(SelectSeq(logs[s], IsBargeIn))
        ttsStarts == Len(SelectSeq(logs[s], IsTtsStart))
    IN /\ bargeIns <= ttsStarts
       /\ pc[s] # "bargeIn_listen" => bargeIns = Cardinality(BargedIn(s))
       /\ pc[s] = "bargeIn_listen" => bargeIns + 1 = Cardinality(BargedIn(s))
       /\ (logs[s] # <<>> /\ IsBargeIn(logs[s][Len(logs[s])])) =>
            /\ pc[s] = "idle"
            /\ sm[s].state = LISTENING
            /\ dispatch(sm[s].state) = "recognise"

C25_Witness ==
  /\ Len(SelectSeq(logs["A"], IsBargeIn)) = 2
  /\ Cardinality(BargedIn("A")) = 2
  /\ sm["A"].state = LISTENING
  /\ stt["A"].voiceFrames > 1

\* ---------------------------------------------------- connection claims
\* C22 as claimed: once the peer connection of a connection that holds a
\* session is failed or closed, the session has been torn down: removed from
\* the registry, closed to inbound audio, its cancellation handle tripped.
C22_FatalEventTearsDown ==
  \A c \in ConnIds :
    (conn[c].session /\ conn[c].connectionState \in {"failed", "closed"}) =>
      /\ c \notin registry
      /\ ~isProcessingAudio[c]
      /\ ttsAbortController[c] # 0 => ttsAbortController[c] \in aborted[c]

\* C29 as claimed: whenever a handler has run to its end and a synthesis
\* stream whose handle is untripped is still running, the state is SPEAKING.
C29_SpeakingWhileStreaming ==
  \A c \in ConnIds :
    Quiescent =>
      \A r \in Started(c) :
        (streams[c][r].status = "delay" /\ streams[c][r].signal \notin aborted[c]) =>
          sm[c].state = SPEAKING

IsSessionClose(e) == e.eventType = "session_close"

SessionCloses(c) == Len(SelectSeq(logs[c], IsSessionClose))

AudioStep(c) == pc[c] = "idle" /\ conn'[c].audio.handled

\* the session's state machine, recogniser, controller, replies and log
SessionView(c) == <<sm[c], stt[c], ttsPhase[c], ttsAbortController[c], aborted[c],
                    logs[c], streams[c], replies[c], pc[c], isProcessingAudio[c]>>

Quiet(frame) == SumSquares(frame) <= (ThresholdNum * Len(frame)) \div ThresholdDen

\* C26: a frame that is dropped changes nothing: processAudioFrame drops
\* every frame in IDLE, PROCESSING and INTERRUPTED, and a frame handled in
\* one of these states, or a non-voiced frame handled in SPEAKING, leaves
\* the state and its history, the cancellation handle, the recogniser and
\* the log as they were.
C26_DroppedFrameChangesNothing ==
  [][\A c \in ConnIds :
       /\ \A state \in {IDLE, PROCESSING, INTERRUPTED} : dispatch(state) = "drop"
       /\ (/\ AudioStep(c)
           /\ \/ sm[c].state \in {IDLE, PROCESSING, INTERRUPTED}
              \/ sm[c].state = SPEAKING /\ Quiet(conn'[c].audio.frame)) =>
            /\ SessionView(c)' = SessionView(c)
            /\ sink'[c] = sink[c]
    ]_vars

C26_Witness ==
  /\ conn["A"].audio.handled
  /\ conn["A"].audio.normalized
  /\ Quiet(conn["A"].audio.frame)
  /\ conn["A"].audio.frame # <<0, 0>>
  /\ sm["A"].state = SPEAKING
  /\ pc["A"] = "idle"
  /\ Running("A")

\* this step hands a frame of reply r to sendAudio, which fails to send it
SendFailed(c, r) ==
  /\ Len(conn'[c].failed) = Len(conn[c].failed) + 1
  /\ conn'[c].failed[Len(conn'[c].failed)][1] = r

\* C24: a failed send does not stop the reply: the frame is not delivered,
\* and unless the reply's handle is tripped the loop goes on as after a
\* successful send: the next frame is generated, or, after the last frame,
\* tts_complete is recorded, SPEAKING is left for LISTENING and the phase is
\* reset.
C24_SendFailureDoesNotStopReply ==
  [][\A c \in ConnIds : \A r \in Started(c) :
       (SendFailed(c, r) /\ streams[c][r].signal \notin aborted[c]) =>
         LET st == streams[c][r]
         IN /\ SinkGrew(c, r)
            /\ st.frameIndex + 1 < st.total =>
                 /\ streams'[c][r] = [st EXCEPT !.frameIndex = @ + 1,
                                                !.chunkCount = @ + 1]
                 /\ sm'[c] = sm[c]
                 /\ "tts_complete" \notin NewEvents(c)
            /\ ~(st.frameIndex + 1 < st.total) =>
                 /\ streams'[c][r].status = "done"
                 /\ "tts_complete" \in NewEvents(c)
                 /\ sm[c].state = SPEAKING => sm'[c].state = LISTENING
                 /\ ttsPhase'[c] = 0
    ]_vars

C24_Witness ==
  /\ conn["A"].failed = << <<1, 0>> >>
  /\ sink["A"] = << <<1, 0>>, <<1, 1>> >>
  /\ streams["A"][1].status = "done"
  /\ streams["A"][1].signal \notin aborted["A"]
  /\ logs["A"][Len(logs["A"])].eventType = "tts_complete"
  /\ sm["A"].state = LISTENING
  /\ sm["A"].history[Len(sm["A"].history)] = [from |-> SPEAKING, to |-> LISTENING]

\* ------------------------------------------------------ isolation claims
\* everything the model keeps of session s
SessionFields(s) == <<SessionView(s), sink[s], starts[s], nextHandle[s], s \in registry>>

\* C21: sessions are isolated: a step that changes anything of one session
\* (its start, an inbound frame, a barge-in, the progress or completion of a
\* reply, its close) leaves every other registered or closed session's
\* state and history, cancellation handle, recogniser, replies and event
\* log as they were.
C21_SessionsIsolated ==
  [][\A s \in SessionIds : \A t \in SessionIds \ {s} :
       SessionFields(s)' # SessionFields(s) => SessionFields(t)' = SessionFields(t)
    ]_vars

C21_Witness ==
  /\ sm["A"].state = LISTENING
  /\ logs["A"][Len(logs["A"])].eventType = "barge_in"
  /\ Running("B")
  /\ sm["B"].state = SPEAKING
  /\ ttsAbortController["B"] \notin aborted["B"]
  /\ ttsAbortController["A"] \notin aborted["A"]

\* ---------------------------------------------- recogniser claims, continued
\* C34: between calls of the recogniser the processing flag is true exactly
\* when the voiced-frame counter is at least 25, the silence counter is
\* below 15, and the silence counter is non-zero only while the processing
\* flag is true.
C34_FlagMatchesCounters ==
  /\ stt["A"].isProcessing <=> stt["A"].voiceFrames >= VOICE_START_FRAMES
  /\ stt["A"].silenceFrames < SILENCE_END_FRAMES
  /\ stt["A"].silenceFrames # 0 => stt["A"].isProcessing

C34_Witness ==
  /\ stt["A"].responseIndex = 1
  /\ stt["A"].isProcessing
  /\ stt["A"].voiceFrames > VOICE_START_FRAMES
  /\ stt["A"].silenceFrames = SILENCE_END_FRAMES - 1

\* --------------------------------------------- state machine claims, continued
\* C33: the history is a chain of accepted transitions: every entry is a
\* pair of the table, the first entry starts from IDLE, each entry starts
\* where the previous one ended, and the current state is where the last
\* entry ended (IDLE for an empty history); a call of transition or reset
\* appends its pair when it is accepted and leaves the history alone when it
\* is rejected.
C33_HistoryIsChain ==
  LET h == sm["A"].history
      before == lastCall.before
      pair == [from |-> before.state, to |-> lastCall.to]
  IN /\ \A i \in 1..Len(h) : <<h[i].from, h[i].to>> \in ValidPairs
     /\ h # <<>> => h[1].from = IDLE
     /\ \A i \in 2..Len(h) : h[i].from = h[i - 1].to
     /\ sm["A"].state = IF h = <<>> THEN IDLE ELSE h[Len(h)].to
     /\ lastCall.op \in {"transition", "reset"} =>
          h = IF <<before.state, lastCall.to>> \in ValidPairs
                THEN Append(before.history, pair)
                ELSE before.history

C33_Witness ==
  /\ Len(sm["A"].history) = 3
  /\ sm["A"].state = SPEAKING
  /\ lastCall.op = "transition"
  /\ ~lastCall.ok
  /\ lastCall.before.state = SPEAKING
  /\ lastCall.to = PROCESSING

\* --------------------------------------------- session claims, concluded
\* the transitions the Session requests in this step: one by start(), one on
\* a Final, one on entering and one on leaving handleBargeIn, one at the
\* start of a reply and one at its normal completion
Requested(s) ==
  (IF starts'[s] # starts[s] THEN 1 ELSE 0)
  + (IF pc[s] = "idle" /\ pc'[s] \in {"bargeIn_abort", "respond"} THEN 1 ELSE 0)
  + (IF pc[s] \in {"bargeIn_listen", "respond"} /\ pc'[s] = "idle" THEN 1 ELSE 0)
  + (IF "tts_complete" \in NewEvents(s) THEN 1 ELSE 0)

\* C31: with start() called once per session, every transition the Session
\* requests is accepted: each step appends to the history as many entries as
\* it requests transitions.
C31_NoRejectedTransition ==
  [][\A s \in SessionIds :
       Len(sm'[s].history) = Len(sm[s].history) + Requested(s)
    ]_vars

C31_Witness ==
  /\ starts["A"] = 1
  /\ Len(sm["A"].history) = 8
  /\ sm["A"].state = LISTENING
  /\ Cardinality(BargedIn("A")) = 1
  /\ logs["A"][Len(logs["A"])].eventType = "tts_complete"

\* C32: while an offer is being negotiated on a connection on which
\* handleClose has already run, no step creates or starts a session for it
\* and none is in the registry after the step.
C32_NoSessionAfterClose ==
  [][\A c \in ConnIds :
       conn[c].pending /\ conn[c].closes > 0 =>
         starts'[c] = starts[c] /\ c \notin registry'
    ]_vars

====
